---------------------------- MODULE Spec2Model ----------------------------
(***************************************************************************)
(* starlette/config.py: the Environ guard around the process environment   *)
(* and the Config resolver (environment -> file values -> default, with    *)
(* an optional cast).                                                      *)
(*                                                                         *)
(* A Python str is the sequence of its code points: "A=1" is               *)
(* <<65, 61, 49>>.  A Python value is a tagged record (str, int, bool,     *)
(* None, the class undefined).  A mapping is a function whose domain is    *)
(* the set of its keys.                                                    *)
(***************************************************************************)
EXTENDS Integers, Sequences, FiniteSets, TLC

VARIABLES
    environ,        \* Environ._environ: the underlying mapping, key -> str
    has_been_read,  \* Environ._has_been_read: the set of keys read so far
    env_prefix,     \* Config.env_prefix
    file_values,    \* Config.file_values: key -> str
    last            \* the last call made and how it ended

vars == <<environ, has_been_read, env_prefix, file_values, last>>

----------------------------------------------------------------------------
(* Bounds of the model *)

\* longest line of an enumerated env file
MaxLineLen == 5
\* most lines of an env file built from SampleLines
MaxLines == 2
\* longest enumerated string handed to _perform_cast
MaxStrLen == 4

----------------------------------------------------------------------------
(* Python values *)

StrV(s) == [t |-> "str", s |-> s]
BoolV(b) == [t |-> "bool", b |-> b]
None == [t |-> "None"]
undefined == [t |-> "undefined"]

Returned(v) == [outcome |-> "ok", result |-> v]
Raised(e) == [outcome |-> e, result |-> None]

EmptyMap == [k \in {} |-> <<>>]
Put(m, k, v) == [x \in (DOMAIN m) \cup {k} |-> IF x = k THEN v ELSE m[x]]
Remove(m, k) == [x \in (DOMAIN m) \ {k} |-> m[x]]

SeqsUpTo(S, n) == UNION {[1..i -> S] : i \in 0..n}

----------------------------------------------------------------------------
(* str methods *)

\* the characters str.strip() removes, those for which str.isspace() holds:
\* \t \n \x0b \x0c \r, \x1c..\x1f, the space, \x85, \xa0 and the Unicode
\* spaces U+1680, U+2000..U+200A, U+2028, U+2029, U+202F, U+205F, U+3000
WhiteSpace ==
    {9, 10, 11, 12, 13, 28, 29, 30, 31, 32, 133, 160, 5760}
        \cup (8192..8202) \cup {8232, 8233, 8239, 8287, 12288}
QuoteChars == {34, 39}  \* "\"", "'"

RECURSIVE LStrip(_, _)
LStrip(s, chars) ==
    IF s # <<>> /\ Head(s) \in chars THEN LStrip(Tail(s), chars) ELSE s

RECURSIVE RStrip(_, _)
RStrip(s, chars) ==
    IF s # <<>> /\ s[Len(s)] \in chars
    THEN RStrip(SubSeq(s, 1, Len(s) - 1), chars)
    ELSE s

\* s.strip() and s.strip(chars)
Strip(s, chars) == RStrip(LStrip(s, chars), chars)

\* c in s
HasChar(s, c) == \E i \in 1..Len(s) : s[i] = c

\* s.startswith(c)
StartsWith(s, c) == Len(s) > 0 /\ s[1] = c

\* s.split(c, 1) of a string that holds c: the parts before and after the
\* leftmost c
RECURSIVE Find(_, _, _)
Find(s, c, i) == IF s[i] = c THEN i ELSE Find(s, c, i + 1)

Split1(s, c) ==
    LET i == Find(s, c, 1)
    IN  <<SubSeq(s, 1, i - 1), SubSeq(s, i + 1, Len(s))>>

\* the concatenation of the sequences ss[1], ..., ss[Len(ss)]
Flatten(ss) ==
    LET RECURSIVE Cat(_, _)
        Cat(lo, hi) ==
            IF lo > hi THEN <<>>
            ELSE IF lo = hi THEN ss[lo]
            ELSE LET mid == (lo + hi) \div 2
                 IN  Cat(lo, mid) \o Cat(mid + 1, hi)
    IN  Cat(1, Len(ss))

\* c lies in one of the ranges <<lo, hi>> of R
InRanges(c, R) == \E r \in R : r[1] <= c /\ c <= r[2]

\* The characters outside ASCII whose lower case is one other character:
\* <<lo, hi, step, delta>> says that lo, lo + step, ..., hi each lower to
\* themselves plus delta (Unicode 14, the data of Python 3.11).
LowerRanges ==
    {
        <<192, 214, 1, 32>>, <<216, 222, 1, 32>>, <<256, 302, 2, 1>>,
        <<306, 310, 2, 1>>, <<313, 327, 2, 1>>, <<330, 374, 2, 1>>,
        <<376, 376, 1, -121>>, <<377, 381, 2, 1>>, <<385, 385, 1, 210>>,
        <<386, 388, 2, 1>>, <<390, 390, 1, 206>>, <<391, 391, 1, 1>>,
        <<393, 394, 1, 205>>, <<395, 395, 1, 1>>, <<398, 398, 1, 79>>,
        <<399, 399, 1, 202>>, <<400, 400, 1, 203>>, <<401, 401, 1, 1>>,
        <<403, 403, 1, 205>>, <<404, 404, 1, 207>>, <<406, 406, 1, 211>>,
        <<407, 407, 1, 209>>, <<408, 408, 1, 1>>, <<412, 412, 1, 211>>,
        <<413, 413, 1, 213>>, <<415, 415, 1, 214>>, <<416, 420, 2, 1>>,
        <<422, 422, 1, 218>>, <<423, 423, 1, 1>>, <<425, 425, 1, 218>>,
        <<428, 428, 1, 1>>, <<430, 430, 1, 218>>, <<431, 431, 1, 1>>,
        <<433, 434, 1, 217>>, <<435, 437, 2, 1>>, <<439, 439, 1, 219>>,
        <<440, 440, 1, 1>>, <<444, 444, 1, 1>>, <<452, 452, 1, 2>>,
        <<453, 453, 1, 1>>, <<455, 455, 1, 2>>, <<456, 456, 1, 1>>,
        <<458, 458, 1, 2>>, <<459, 475, 2, 1>>, <<478, 494, 2, 1>>,
        <<497, 497, 1, 2>>, <<498, 500, 2, 1>>, <<502, 502, 1, -97>>,
        <<503, 503, 1, -56>>, <<504, 542, 2, 1>>, <<544, 544, 1, -130>>,
        <<546, 562, 2, 1>>, <<570, 570, 1, 10795>>, <<571, 571, 1, 1>>,
        <<573, 573, 1, -163>>, <<574, 574, 1, 10792>>, <<577, 577, 1, 1>>,
        <<579, 579, 1, -195>>, <<580, 580, 1, 69>>, <<581, 581, 1, 71>>,
        <<582, 590, 2, 1>>, <<880, 882, 2, 1>>, <<886, 886, 1, 1>>,
        <<895, 895, 1, 116>>, <<902, 902, 1, 38>>, <<904, 906, 1, 37>>,
        <<908, 908, 1, 64>>, <<910, 911, 1, 63>>, <<913, 929, 1, 32>>,
        <<931, 939, 1, 32>>, <<975, 975, 1, 8>>, <<984, 1006, 2, 1>>,
        <<1012, 1012, 1, -60>>, <<1015, 1015, 1, 1>>, <<1017, 1017, 1, -7>>,
        <<1018, 1018, 1, 1>>, <<1021, 1023, 1, -130>>,
        <<1024, 1039, 1, 80>>, <<1040, 1071, 1, 32>>, <<1120, 1152, 2, 1>>,
        <<1162, 1214, 2, 1>>, <<1216, 1216, 1, 15>>, <<1217, 1229, 2, 1>>,
        <<1232, 1326, 2, 1>>, <<1329, 1366, 1, 48>>,
        <<4256, 4293, 1, 7264>>, <<4295, 4295, 1, 7264>>,
        <<4301, 4301, 1, 7264>>, <<5024, 5103, 1, 38864>>,
        <<5104, 5109, 1, 8>>, <<7312, 7354, 1, -3008>>,
        <<7357, 7359, 1, -3008>>, <<7680, 7828, 2, 1>>,
        <<7838, 7838, 1, -7615>>, <<7840, 7934, 2, 1>>,
        <<7944, 7951, 1, -8>>, <<7960, 7965, 1, -8>>, <<7976, 7983, 1, -8>>,
        <<7992, 7999, 1, -8>>, <<8008, 8013, 1, -8>>, <<8025, 8031, 2, -8>>,
        <<8040, 8047, 1, -8>>, <<8072, 8079, 1, -8>>, <<8088, 8095, 1, -8>>,
        <<8104, 8111, 1, -8>>, <<8120, 8121, 1, -8>>,
        <<8122, 8123, 1, -74>>, <<8124, 8124, 1, -9>>,
        <<8136, 8139, 1, -86>>, <<8140, 8140, 1, -9>>,
        <<8152, 8153, 1, -8>>, <<8154, 8155, 1, -100>>,
        <<8168, 8169, 1, -8>>, <<8170, 8171, 1, -112>>,
        <<8172, 8172, 1, -7>>, <<8184, 8185, 1, -128>>,
        <<8186, 8187, 1, -126>>, <<8188, 8188, 1, -9>>,
        <<8486, 8486, 1, -7517>>, <<8490, 8490, 1, -8383>>,
        <<8491, 8491, 1, -8262>>, <<8498, 8498, 1, 28>>,
        <<8544, 8559, 1, 16>>, <<8579, 8579, 1, 1>>, <<9398, 9423, 1, 26>>,
        <<11264, 11311, 1, 48>>, <<11360, 11360, 1, 1>>,
        <<11362, 11362, 1, -10743>>, <<11363, 11363, 1, -3814>>,
        <<11364, 11364, 1, -10727>>, <<11367, 11371, 2, 1>>,
        <<11373, 11373, 1, -10780>>, <<11374, 11374, 1, -10749>>,
        <<11375, 11375, 1, -10783>>, <<11376, 11376, 1, -10782>>,
        <<11378, 11378, 1, 1>>, <<11381, 11381, 1, 1>>,
        <<11390, 11391, 1, -10815>>, <<11392, 11490, 2, 1>>,
        <<11499, 11501, 2, 1>>, <<11506, 11506, 1, 1>>,
        <<42560, 42604, 2, 1>>, <<42624, 42650, 2, 1>>,
        <<42786, 42798, 2, 1>>, <<42802, 42862, 2, 1>>,
        <<42873, 42875, 2, 1>>, <<42877, 42877, 1, -35332>>,
        <<42878, 42886, 2, 1>>, <<42891, 42891, 1, 1>>,
        <<42893, 42893, 1, -42280>>, <<42896, 42898, 2, 1>>,
        <<42902, 42920, 2, 1>>, <<42922, 42922, 1, -42308>>,
        <<42923, 42923, 1, -42319>>, <<42924, 42924, 1, -42315>>,
        <<42925, 42925, 1, -42305>>, <<42926, 42926, 1, -42308>>,
        <<42928, 42928, 1, -42258>>, <<42929, 42929, 1, -42282>>,
        <<42930, 42930, 1, -42261>>, <<42931, 42931, 1, 928>>,
        <<42932, 42946, 2, 1>>, <<42948, 42948, 1, -48>>,
        <<42949, 42949, 1, -42307>>, <<42950, 42950, 1, -35384>>,
        <<42951, 42953, 2, 1>>, <<42960, 42960, 1, 1>>,
        <<42966, 42968, 2, 1>>, <<42997, 42997, 1, 1>>,
        <<65313, 65338, 1, 32>>, <<66560, 66599, 1, 40>>,
        <<66736, 66771, 1, 40>>, <<66928, 66938, 1, 39>>,
        <<66940, 66954, 1, 39>>, <<66956, 66962, 1, 39>>,
        <<66964, 66965, 1, 39>>, <<68736, 68786, 1, 64>>,
        <<71840, 71871, 1, 32>>, <<93760, 93791, 1, 32>>,
        <<125184, 125217, 1, 34>>
    }

\* the lower case of one character, context aside
LowerChar(c) ==
    IF c < 128 THEN (IF 65 <= c /\ c <= 90 THEN c + 32 ELSE c)
    ELSE LET hit == {r \in LowerRanges :
                        r[1] <= c /\ c <= r[2] /\ (c - r[1]) % r[3] = 0}
         IN  IF hit = {} THEN c ELSE c + (CHOOSE r \in hit : TRUE)[4]

\* the characters the final-sigma rule skips (Case_Ignorable)
CaseIgnorableRanges ==
    {
        <<39, 39>>, <<46, 46>>, <<58, 58>>, <<94, 94>>, <<96, 96>>,
        <<168, 168>>, <<173, 173>>, <<175, 175>>, <<180, 180>>,
        <<183, 184>>, <<688, 879>>, <<884, 885>>, <<890, 890>>,
        <<900, 901>>, <<903, 903>>, <<1155, 1161>>, <<1369, 1369>>,
        <<1375, 1375>>, <<1425, 1469>>, <<1471, 1471>>, <<1473, 1474>>,
        <<1476, 1477>>, <<1479, 1479>>, <<1524, 1524>>, <<1536, 1541>>,
        <<1552, 1562>>, <<1564, 1564>>, <<1600, 1600>>, <<1611, 1631>>,
        <<1648, 1648>>, <<1750, 1757>>, <<1759, 1768>>, <<1770, 1773>>,
        <<1807, 1807>>, <<1809, 1809>>, <<1840, 1866>>, <<1958, 1968>>,
        <<2027, 2037>>, <<2042, 2042>>, <<2045, 2045>>, <<2070, 2093>>,
        <<2137, 2139>>, <<2184, 2184>>, <<2192, 2193>>, <<2200, 2207>>,
        <<2249, 2306>>, <<2362, 2362>>, <<2364, 2364>>, <<2369, 2376>>,
        <<2381, 2381>>, <<2385, 2391>>, <<2402, 2403>>, <<2417, 2417>>,
        <<2433, 2433>>, <<2492, 2492>>, <<2497, 2500>>, <<2509, 2509>>,
        <<2530, 2531>>, <<2558, 2558>>, <<2561, 2562>>, <<2620, 2620>>,
        <<2625, 2626>>, <<2631, 2632>>, <<2635, 2637>>, <<2641, 2641>>,
        <<2672, 2673>>, <<2677, 2677>>, <<2689, 2690>>, <<2748, 2748>>,
        <<2753, 2757>>, <<2759, 2760>>, <<2765, 2765>>, <<2786, 2787>>,
        <<2810, 2815>>, <<2817, 2817>>, <<2876, 2876>>, <<2879, 2879>>,
        <<2881, 2884>>, <<2893, 2893>>, <<2901, 2902>>, <<2914, 2915>>,
        <<2946, 2946>>, <<3008, 3008>>, <<3021, 3021>>, <<3072, 3072>>,
        <<3076, 3076>>, <<3132, 3132>>, <<3134, 3136>>, <<3142, 3144>>,
        <<3146, 3149>>, <<3157, 3158>>, <<3170, 3171>>, <<3201, 3201>>,
        <<3260, 3260>>, <<3263, 3263>>, <<3270, 3270>>, <<3276, 3277>>,
        <<3298, 3299>>, <<3328, 3329>>, <<3387, 3388>>, <<3393, 3396>>,
        <<3405, 3405>>, <<3426, 3427>>, <<3457, 3457>>, <<3530, 3530>>,
        <<3538, 3540>>, <<3542, 3542>>, <<3633, 3633>>, <<3636, 3642>>,
        <<3654, 3662>>, <<3761, 3761>>, <<3764, 3772>>, <<3782, 3782>>,
        <<3784, 3789>>, <<3864, 3865>>, <<3893, 3893>>, <<3895, 3895>>,
        <<3897, 3897>>, <<3953, 3966>>, <<3968, 3972>>, <<3974, 3975>>,
        <<3981, 3991>>, <<3993, 4028>>, <<4038, 4038>>, <<4141, 4144>>,
        <<4146, 4151>>, <<4153, 4154>>, <<4157, 4158>>, <<4184, 4185>>,
        <<4190, 4192>>, <<4209, 4212>>, <<4226, 4226>>, <<4229, 4230>>,
        <<4237, 4237>>, <<4253, 4253>>, <<4348, 4348>>, <<4957, 4959>>,
        <<5906, 5908>>, <<5938, 5939>>, <<5970, 5971>>, <<6002, 6003>>,
        <<6068, 6069>>, <<6071, 6077>>, <<6086, 6086>>, <<6089, 6099>>,
        <<6103, 6103>>, <<6109, 6109>>, <<6155, 6159>>, <<6211, 6211>>,
        <<6277, 6278>>, <<6313, 6313>>, <<6432, 6434>>, <<6439, 6440>>,
        <<6450, 6450>>, <<6457, 6459>>, <<6679, 6680>>, <<6683, 6683>>,
        <<6742, 6742>>, <<6744, 6750>>, <<6752, 6752>>, <<6754, 6754>>,
        <<6757, 6764>>, <<6771, 6780>>, <<6783, 6783>>, <<6823, 6823>>,
        <<6832, 6862>>, <<6912, 6915>>, <<6964, 6964>>, <<6966, 6970>>,
        <<6972, 6972>>, <<6978, 6978>>, <<7019, 7027>>, <<7040, 7041>>,
        <<7074, 7077>>, <<7080, 7081>>, <<7083, 7085>>, <<7142, 7142>>,
        <<7144, 7145>>, <<7149, 7149>>, <<7151, 7153>>, <<7212, 7219>>,
        <<7222, 7223>>, <<7288, 7293>>, <<7376, 7378>>, <<7380, 7392>>,
        <<7394, 7400>>, <<7405, 7405>>, <<7412, 7412>>, <<7416, 7417>>,
        <<7468, 7530>>, <<7544, 7544>>, <<7579, 7679>>, <<8125, 8125>>,
        <<8127, 8129>>, <<8141, 8143>>, <<8157, 8159>>, <<8173, 8175>>,
        <<8189, 8190>>, <<8203, 8207>>, <<8216, 8217>>, <<8228, 8228>>,
        <<8231, 8231>>, <<8234, 8238>>, <<8288, 8292>>, <<8294, 8303>>,
        <<8305, 8305>>, <<8319, 8319>>, <<8336, 8348>>, <<8400, 8432>>,
        <<11388, 11389>>, <<11503, 11505>>, <<11631, 11631>>,
        <<11647, 11647>>, <<11744, 11775>>, <<11823, 11823>>,
        <<12293, 12293>>, <<12330, 12333>>, <<12337, 12341>>,
        <<12347, 12347>>, <<12441, 12446>>, <<12540, 12542>>,
        <<40981, 40981>>, <<42232, 42237>>, <<42508, 42508>>,
        <<42607, 42610>>, <<42612, 42621>>, <<42623, 42623>>,
        <<42652, 42655>>, <<42736, 42737>>, <<42752, 42785>>,
        <<42864, 42864>>, <<42888, 42890>>, <<42994, 42996>>,
        <<43000, 43001>>, <<43010, 43010>>, <<43014, 43014>>,
        <<43019, 43019>>, <<43045, 43046>>, <<43052, 43052>>,
        <<43204, 43205>>, <<43232, 43249>>, <<43263, 43263>>,
        <<43302, 43309>>, <<43335, 43345>>, <<43392, 43394>>,
        <<43443, 43443>>, <<43446, 43449>>, <<43452, 43453>>,
        <<43471, 43471>>, <<43493, 43494>>, <<43561, 43566>>,
        <<43569, 43570>>, <<43573, 43574>>, <<43587, 43587>>,
        <<43596, 43596>>, <<43632, 43632>>, <<43644, 43644>>,
        <<43696, 43696>>, <<43698, 43700>>, <<43703, 43704>>,
        <<43710, 43711>>, <<43713, 43713>>, <<43741, 43741>>,
        <<43756, 43757>>, <<43763, 43764>>, <<43766, 43766>>,
        <<43867, 43871>>, <<43881, 43883>>, <<44005, 44005>>,
        <<44008, 44008>>, <<44013, 44013>>, <<64286, 64286>>,
        <<64434, 64450>>, <<65024, 65039>>, <<65043, 65043>>,
        <<65056, 65071>>, <<65106, 65106>>, <<65109, 65109>>,
        <<65279, 65279>>, <<65287, 65287>>, <<65294, 65294>>,
        <<65306, 65306>>, <<65342, 65342>>, <<65344, 65344>>,
        <<65392, 65392>>, <<65438, 65439>>, <<65507, 65507>>,
        <<65529, 65531>>, <<66045, 66045>>, <<66272, 66272>>,
        <<66422, 66426>>, <<67456, 67461>>, <<67463, 67504>>,
        <<67506, 67514>>, <<68097, 68099>>, <<68101, 68102>>,
        <<68108, 68111>>, <<68152, 68154>>, <<68159, 68159>>,
        <<68325, 68326>>, <<68900, 68903>>, <<69291, 69292>>,
        <<69446, 69456>>, <<69506, 69509>>, <<69633, 69633>>,
        <<69688, 69702>>, <<69744, 69744>>, <<69747, 69748>>,
        <<69759, 69761>>, <<69811, 69814>>, <<69817, 69818>>,
        <<69821, 69821>>, <<69826, 69826>>, <<69837, 69837>>,
        <<69888, 69890>>, <<69927, 69931>>, <<69933, 69940>>,
        <<70003, 70003>>, <<70016, 70017>>, <<70070, 70078>>,
        <<70089, 70092>>, <<70095, 70095>>, <<70191, 70193>>,
        <<70196, 70196>>, <<70198, 70199>>, <<70206, 70206>>,
        <<70367, 70367>>, <<70371, 70378>>, <<70400, 70401>>,
        <<70459, 70460>>, <<70464, 70464>>, <<70502, 70508>>,
        <<70512, 70516>>, <<70712, 70719>>, <<70722, 70724>>,
        <<70726, 70726>>, <<70750, 70750>>, <<70835, 70840>>,
        <<70842, 70842>>, <<70847, 70848>>, <<70850, 70851>>,
        <<71090, 71093>>, <<71100, 71101>>, <<71103, 71104>>,
        <<71132, 71133>>, <<71219, 71226>>, <<71229, 71229>>,
        <<71231, 71232>>, <<71339, 71339>>, <<71341, 71341>>,
        <<71344, 71349>>, <<71351, 71351>>, <<71453, 71455>>,
        <<71458, 71461>>, <<71463, 71467>>, <<71727, 71735>>,
        <<71737, 71738>>, <<71995, 71996>>, <<71998, 71998>>,
        <<72003, 72003>>, <<72148, 72151>>, <<72154, 72155>>,
        <<72160, 72160>>, <<72193, 72202>>, <<72243, 72248>>,
        <<72251, 72254>>, <<72263, 72263>>, <<72273, 72278>>,
        <<72281, 72283>>, <<72330, 72342>>, <<72344, 72345>>,
        <<72752, 72758>>, <<72760, 72765>>, <<72767, 72767>>,
        <<72850, 72871>>, <<72874, 72880>>, <<72882, 72883>>,
        <<72885, 72886>>, <<73009, 73014>>, <<73018, 73018>>,
        <<73020, 73021>>, <<73023, 73029>>, <<73031, 73031>>,
        <<73104, 73105>>, <<73109, 73109>>, <<73111, 73111>>,
        <<73459, 73460>>, <<78896, 78904>>, <<92912, 92916>>,
        <<92976, 92982>>, <<92992, 92995>>, <<94031, 94031>>,
        <<94095, 94111>>, <<94176, 94177>>, <<94179, 94180>>,
        <<110576, 110579>>, <<110581, 110587>>, <<110589, 110590>>,
        <<113821, 113822>>, <<113824, 113827>>, <<118528, 118573>>,
        <<118576, 118598>>, <<119143, 119145>>, <<119155, 119170>>,
        <<119173, 119179>>, <<119210, 119213>>, <<119362, 119364>>,
        <<121344, 121398>>, <<121403, 121452>>, <<121461, 121461>>,
        <<121476, 121476>>, <<121499, 121503>>, <<121505, 121519>>,
        <<122880, 122886>>, <<122888, 122904>>, <<122907, 122913>>,
        <<122915, 122916>>, <<122918, 122922>>, <<123184, 123197>>,
        <<123566, 123566>>, <<123628, 123631>>, <<125136, 125142>>,
        <<125252, 125259>>, <<127995, 127999>>, <<917505, 917505>>,
        <<917536, 917631>>, <<917760, 917999>>
    }

\* the cased characters among those that are not case-ignorable
CasedRanges ==
    {
        <<65, 90>>, <<97, 122>>, <<170, 170>>, <<181, 181>>, <<186, 186>>,
        <<192, 214>>, <<216, 246>>, <<248, 442>>, <<444, 447>>,
        <<452, 659>>, <<661, 687>>, <<880, 883>>, <<886, 887>>,
        <<891, 893>>, <<895, 895>>, <<902, 902>>, <<904, 906>>,
        <<908, 908>>, <<910, 929>>, <<931, 1013>>, <<1015, 1153>>,
        <<1162, 1327>>, <<1329, 1366>>, <<1376, 1416>>, <<4256, 4293>>,
        <<4295, 4295>>, <<4301, 4301>>, <<4304, 4346>>, <<4349, 4351>>,
        <<5024, 5109>>, <<5112, 5117>>, <<7296, 7304>>, <<7312, 7354>>,
        <<7357, 7359>>, <<7424, 7467>>, <<7531, 7543>>, <<7545, 7578>>,
        <<7680, 7957>>, <<7960, 7965>>, <<7968, 8005>>, <<8008, 8013>>,
        <<8016, 8023>>, <<8025, 8025>>, <<8027, 8027>>, <<8029, 8029>>,
        <<8031, 8061>>, <<8064, 8116>>, <<8118, 8124>>, <<8126, 8126>>,
        <<8130, 8132>>, <<8134, 8140>>, <<8144, 8147>>, <<8150, 8155>>,
        <<8160, 8172>>, <<8178, 8180>>, <<8182, 8188>>, <<8450, 8450>>,
        <<8455, 8455>>, <<8458, 8467>>, <<8469, 8469>>, <<8473, 8477>>,
        <<8484, 8484>>, <<8486, 8486>>, <<8488, 8488>>, <<8490, 8493>>,
        <<8495, 8500>>, <<8505, 8505>>, <<8508, 8511>>, <<8517, 8521>>,
        <<8526, 8526>>, <<8544, 8575>>, <<8579, 8580>>, <<9398, 9449>>,
        <<11264, 11387>>, <<11390, 11492>>, <<11499, 11502>>,
        <<11506, 11507>>, <<11520, 11557>>, <<11559, 11559>>,
        <<11565, 11565>>, <<42560, 42605>>, <<42624, 42651>>,
        <<42786, 42863>>, <<42865, 42887>>, <<42891, 42894>>,
        <<42896, 42954>>, <<42960, 42961>>, <<42963, 42963>>,
        <<42965, 42969>>, <<42997, 42998>>, <<43002, 43002>>,
        <<43824, 43866>>, <<43872, 43880>>, <<43888, 43967>>,
        <<64256, 64262>>, <<64275, 64279>>, <<65313, 65338>>,
        <<65345, 65370>>, <<66560, 66639>>, <<66736, 66771>>,
        <<66776, 66811>>, <<66928, 66938>>, <<66940, 66954>>,
        <<66956, 66962>>, <<66964, 66965>>, <<66967, 66977>>,
        <<66979, 66993>>, <<66995, 67001>>, <<67003, 67004>>,
        <<68736, 68786>>, <<68800, 68850>>, <<71840, 71903>>,
        <<93760, 93823>>, <<119808, 119892>>, <<119894, 119964>>,
        <<119966, 119967>>, <<119970, 119970>>, <<119973, 119974>>,
        <<119977, 119980>>, <<119982, 119993>>, <<119995, 119995>>,
        <<119997, 120003>>, <<120005, 120069>>, <<120071, 120074>>,
        <<120077, 120084>>, <<120086, 120092>>, <<120094, 120121>>,
        <<120123, 120126>>, <<120128, 120132>>, <<120134, 120134>>,
        <<120138, 120144>>, <<120146, 120485>>, <<120488, 120512>>,
        <<120514, 120538>>, <<120540, 120570>>, <<120572, 120596>>,
        <<120598, 120628>>, <<120630, 120654>>, <<120656, 120686>>,
        <<120688, 120712>>, <<120714, 120744>>, <<120746, 120770>>,
        <<120772, 120779>>, <<122624, 122633>>, <<122635, 122654>>,
        <<125184, 125251>>, <<127280, 127305>>, <<127312, 127337>>,
        <<127344, 127369>>
    }

CaseIgnorable(c) == InRanges(c, CaseIgnorableRanges)
Cased(c) == InRanges(c, CasedRanges)

\* the capital sigma s[i] ends a word: a cased character stands before it
\* and none after it, case-ignorable characters skipped on both sides
FinalSigma(s, i) ==
    LET before == {j \in 1..(i - 1) : ~CaseIgnorable(s[j])}
        after == {j \in (i + 1)..Len(s) : ~CaseIgnorable(s[j])}
        prev == CHOOSE j \in before : \A k \in before : k <= j
        next == CHOOSE j \in after : \A k \in after : j <= k
    IN  /\ before # {} /\ Cased(s[prev])
        /\ after = {} \/ ~Cased(s[next])

\* s.lower(): U+03A3 lowers to U+03C2 at the end of a word and to U+03C3
\* elsewhere, U+0130 to the two characters U+0069 U+0307, every other
\* character by LowerChar
ToLower(s) ==
    Flatten([i \in 1..Len(s) |->
                IF s[i] = 931 THEN <<IF FinalSigma(s, i) THEN 962 ELSE 963>>
                ELSE IF s[i] = 304 THEN <<105, 775>>
                ELSE <<LowerChar(s[i])>>])

\* the whitespace int() skips around a literal: the ASCII \t \n \x0b \x0c
\* \r and space, and the Unicode spaces outside ASCII (\x1c..\x1f are not)
IntWhiteSpace == {c \in WhiteSpace : c \notin 28..31}

\* the zero of every run of ten decimal digits (category Nd): int() reads
\* the digits of every script
DigitZeros ==
    {
        48, 1632, 1776, 1984, 2406, 2534, 2662, 2790, 2918, 3046, 3174,
        3302, 3430, 3558, 3664, 3792, 3872, 4160, 4240, 6112, 6160, 6470,
        6608, 6784, 6800, 6992, 7088, 7232, 7248, 42528, 43216, 43264,
        43472, 43504, 43600, 44016, 65296, 66720, 68912, 69734, 69872,
        69942, 70096, 70384, 70736, 70864, 71248, 71360, 71472, 71904,
        72016, 72784, 73040, 73120, 92768, 92864, 93008, 120782, 120792,
        120802, 120812, 120822, 123200, 123632, 125264, 130032
    }

IsDigit(c) == \E z \in DigitZeros : z <= c /\ c <= z + 9
DigitVal(c) == c - (CHOOSE z \in DigitZeros : z <= c /\ c <= z + 9)

\* sys.int_info.default_max_str_digits: int() refuses a literal of more
\* digits
MaxStrDigits == 4300

\* the decimal digits of n >= 0, the most significant first; none for 0
RECURSIVE DecDigits(_)
DecDigits(n) == IF n = 0 THEN <<>> ELSE Append(DecDigits(n \div 10), n % 10)

\* An int has no width: it is its sign and the decimal digits of its
\* magnitude.
IntV(n) ==
    [t |-> "int", neg |-> n < 0, mag |-> DecDigits(IF n < 0 THEN 0 - n ELSE n)]

\* int(s) of a str: surrounding whitespace, an optional sign, decimal digits
\* with single underscores between them; anything else, and a literal of
\* more than MaxStrDigits digits, is a ValueError
IntOfStr(s) ==
    LET t == Strip(s, IntWhiteSpace)
        signed == t # <<>> /\ t[1] \in {43, 45}  \* "+", "-"
        body == IF signed THEN Tail(t) ELSE t
        wellFormed ==
            /\ body # <<>>
            /\ \A i \in 1..Len(body) : IsDigit(body[i]) \/ body[i] = 95  \* "_"
            /\ IsDigit(body[1]) /\ IsDigit(body[Len(body)])
            /\ \A i \in 1..(Len(body) - 1) : ~(body[i] = 95 /\ body[i + 1] = 95)
        digits == SelectSeq(body, IsDigit)
        mag == LStrip([i \in 1..Len(digits) |-> DigitVal(digits[i])], {0})
    IN  IF ~wellFormed \/ Len(digits) > MaxStrDigits THEN Raised("ValueError")
        ELSE Returned([t |-> "int",
                       neg |-> signed /\ t[1] = 45 /\ mag # <<>>,  \* "-"
                       mag |-> mag])

----------------------------------------------------------------------------
(* class Environ *)

\* __getitem__ looking the key up before marking it: a missing key is left
\* unmarked
Environ_getitem_lookupfirst(env, read, key) ==
    IF key \in DOMAIN env
    THEN [environ |-> env, read |-> read \cup {key}, ret |-> Returned(StrV(env[key]))]
    ELSE [environ |-> env, read |-> read, ret |-> Raised("KeyError")]

\* Environ.__getitem__
Environ_getitem(env, read, key) ==
    [environ |-> env,
     read |-> read \cup {key},
     ret |-> IF key \in DOMAIN env THEN Returned(StrV(env[key]))
             ELSE Raised("KeyError")]

\* __setitem__ storing like setdefault: a present key keeps its value
Environ_setitem_setdefault(env, read, key, value) ==
    IF key \in read
    THEN [environ |-> env, read |-> read, ret |-> Raised("EnvironError")]
    ELSE IF key \in DOMAIN env
    THEN [environ |-> env, read |-> read, ret |-> Returned(None)]
    ELSE [environ |-> Put(env, key, value), read |-> read, ret |-> Returned(None)]

\* Environ.__setitem__
Environ_setitem(env, read, key, value) ==
    IF key \in read
    THEN [environ |-> env, read |-> read, ret |-> Raised("EnvironError")]
    ELSE [environ |-> Put(env, key, value), read |-> read, ret |-> Returned(None)]

\* __delitem__ without the check of _has_been_read
Environ_delitem_unguarded(env, read, key) ==
    IF key \in DOMAIN env
    THEN [environ |-> Remove(env, key), read |-> read, ret |-> Returned(None)]
    ELSE [environ |-> env, read |-> read, ret |-> Raised("KeyError")]

\* Environ.__delitem__
Environ_delitem(env, read, key) ==
    IF key \in read
    THEN [environ |-> env, read |-> read, ret |-> Raised("EnvironError")]
    ELSE IF key \in DOMAIN env
    THEN [environ |-> Remove(env, key), read |-> read, ret |-> Returned(None)]
    ELSE [environ |-> env, read |-> read, ret |-> Raised("KeyError")]

\* a __contains__ asking the underlying mapping, which marks nothing
Environ_contains_unmarked(env, read, key) ==
    [environ |-> env, read |-> read, ret |-> Returned(BoolV(key \in DOMAIN env))]

\* key in environ: Environ defines no __contains__, so the Mapping mixin's
\* runs: try self[key], False on KeyError, True otherwise
Environ_contains(env, read, key) ==
    LET got == Environ_getitem(env, read, key)
    IN  [environ |-> got.environ,
         read |-> got.read,
         ret |-> Returned(BoolV(got.ret.outcome = "ok"))]

\* Environ.__iter__ (the keys; their order is not modelled)
Environ_iter(env) == Returned([t |-> "keys", keys |-> DOMAIN env])

\* Environ.__len__
Environ_len(env) == Returned(IntV(Cardinality(DOMAIN env)))

----------------------------------------------------------------------------
(* class Config *)

\* cast(value) for the builtins int and bool, and what it raises
CallCast(cast, value) ==
    CASE cast = "int" /\ value.t = "str" -> IntOfStr(value.s)
      [] cast = "int" /\ value.t = "int" -> Returned(value)
      [] cast = "int" /\ value.t = "bool" -> Returned(IntV(IF value.b THEN 1 ELSE 0))
      [] cast = "bool" /\ value.t = "int" -> Returned(BoolV(value.mag # <<>>))
      [] cast = "bool" /\ value.t = "bool" -> Returned(value)

BoolMapping ==
    [s \in {<<116, 114, 117, 101>>, <<49>>, <<102, 97, 108, 115, 101>>, <<48>>}  \* "true", "1", "false", "0"
        |-> s \in {<<116, 114, 117, 101>>, <<49>>}]  \* "true", "1"

\* _perform_cast looking the value up in the mapping as it is written
PerformCast_nolower(key, value, cast) ==
    IF cast = "None" \/ value.t = "None" THEN Returned(value)
    ELSE IF cast = "bool" /\ value.t = "str"
    THEN IF value.s \notin DOMAIN BoolMapping THEN Raised("ValueError")
         ELSE Returned(BoolV(BoolMapping[value.s]))
    ELSE CallCast(cast, value)

\* Config._perform_cast
PerformCast(key, value, cast) ==
    IF cast = "None" \/ value.t = "None" THEN Returned(value)
    ELSE IF cast = "bool" /\ value.t = "str"
    THEN LET v == ToLower(value.s)
         IN  IF v \notin DOMAIN BoolMapping THEN Raised("ValueError")
             ELSE Returned(BoolV(BoolMapping[v]))
    ELSE CallCast(cast, value)

\* the loop's body keeping the first value of a key
ReadLine_keepfirst(fv, rawLine) ==
    LET line == Strip(rawLine, WhiteSpace)
    IN  IF HasChar(line, 61) /\ ~StartsWith(line, 35)  \* "=", "#"
        THEN LET kv == Split1(line, 61)  \* "="
                 key == Strip(kv[1], WhiteSpace)
                 value == Strip(Strip(kv[2], WhiteSpace), QuoteChars)
             IN  IF key \in DOMAIN fv THEN fv ELSE Put(fv, key, value)
        ELSE fv

\* the loop's body taking one pair of matching quotes off the value
ReadLine_onelayer(fv, rawLine) ==
    LET line == Strip(rawLine, WhiteSpace)
    IN  IF HasChar(line, 61) /\ ~StartsWith(line, 35)  \* "=", "#"
        THEN LET kv == Split1(line, 61)  \* "="
                 key == Strip(kv[1], WhiteSpace)
                 v == Strip(kv[2], WhiteSpace)
                 value == IF Len(v) >= 2 /\ v[1] \in QuoteChars /\ v[Len(v)] = v[1]
                          THEN SubSeq(v, 2, Len(v) - 1)
                          ELSE v
             IN  Put(fv, key, value)
        ELSE fv

\* one iteration of the loop of Config._read_file
ReadLine(fv, rawLine) ==
    LET line == Strip(rawLine, WhiteSpace)
    IN  IF HasChar(line, 61) /\ ~StartsWith(line, 35)  \* "=", "#"
        THEN LET kv == Split1(line, 61)  \* "="
                 key == Strip(kv[1], WhiteSpace)
                 value == Strip(Strip(kv[2], WhiteSpace), QuoteChars)
             IN  Put(fv, key, value)
        ELSE fv

RECURSIVE ReadLines(_, _)
ReadLines(fv, lines) ==
    IF lines = <<>> THEN fv
    ELSE ReadLines(ReadLine(fv, Head(lines)), Tail(lines))

\* Config._read_file, of the lines readlines() gives
ReadFile(lines) == ReadLines(EmptyMap, lines)

\* env_file: None or a path that is no file, and a file of these lines
NoFile == [isfile |-> FALSE]
File(lines) == [isfile |-> TRUE, lines |-> lines]

\* Config.__init__: the file values it leaves
ConfigFileValues(env_file) ==
    IF ~env_file.isfile THEN EmptyMap ELSE ReadFile(env_file.lines)

\* Config.get asking the file values before the environment
Config_get_filefirst(env, read, prefix, fv, k, cast, default) ==
    LET key == prefix \o k
        isin == Environ_contains(env, read, key)
    IN  IF key \in DOMAIN fv
        THEN [environ |-> isin.environ, read |-> isin.read,
              ret |-> PerformCast(key, StrV(fv[key]), cast)]
        ELSE IF isin.ret.result.b
        THEN LET got == Environ_getitem(isin.environ, isin.read, key)
             IN  [environ |-> got.environ, read |-> got.read,
                  ret |-> PerformCast(key, got.ret.result, cast)]
        ELSE IF default.t # "undefined"
        THEN [environ |-> isin.environ, read |-> isin.read,
              ret |-> PerformCast(key, default, cast)]
        ELSE [environ |-> isin.environ, read |-> isin.read,
              ret |-> Raised("KeyError")]

\* Config.get with None for the missing default
Config_get_nonedefault(env, read, prefix, fv, k, cast, default) ==
    LET key == prefix \o k
        isin == Environ_contains(env, read, key)
    IN  IF isin.ret.result.b
        THEN LET got == Environ_getitem(isin.environ, isin.read, key)
             IN  [environ |-> got.environ, read |-> got.read,
                  ret |-> PerformCast(key, got.ret.result, cast)]
        ELSE IF key \in DOMAIN fv
        THEN [environ |-> isin.environ, read |-> isin.read,
              ret |-> PerformCast(key, StrV(fv[key]), cast)]
        ELSE IF default.t \notin {"undefined", "None"}
        THEN [environ |-> isin.environ, read |-> isin.read,
              ret |-> PerformCast(key, default, cast)]
        ELSE [environ |-> isin.environ, read |-> isin.read,
              ret |-> Raised("KeyError")]

\* Config.get reading the underlying mapping, past the guard
Config_get_rawlookup(env, read, prefix, fv, k, cast, default) ==
    LET key == prefix \o k
    IN  IF key \in DOMAIN env
        THEN [environ |-> env, read |-> read,
              ret |-> PerformCast(key, StrV(env[key]), cast)]
        ELSE IF key \in DOMAIN fv
        THEN [environ |-> env, read |-> read,
              ret |-> PerformCast(key, StrV(fv[key]), cast)]
        ELSE IF default.t # "undefined"
        THEN [environ |-> env, read |-> read,
              ret |-> PerformCast(key, default, cast)]
        ELSE [environ |-> env, read |-> read, ret |-> Raised("KeyError")]

\* Config.get
Config_get(env, read, prefix, fv, k, cast, default) ==
    LET key == prefix \o k
        isin == Environ_contains(env, read, key)
    IN  IF isin.ret.result.b
        THEN LET got == Environ_getitem(isin.environ, isin.read, key)
             IN  [environ |-> got.environ, read |-> got.read,
                  ret |-> PerformCast(key, got.ret.result, cast)]
        ELSE IF key \in DOMAIN fv
        THEN [environ |-> isin.environ, read |-> isin.read,
              ret |-> PerformCast(key, StrV(fv[key]), cast)]
        ELSE IF default.t # "undefined"
        THEN [environ |-> isin.environ, read |-> isin.read,
              ret |-> PerformCast(key, default, cast)]
        ELSE [environ |-> isin.environ, read |-> isin.read,
              ret |-> Raised("KeyError")]

----------------------------------------------------------------------------
(* The guard and a resolver over it *)

Key == <<75>>  \* "K"
Prefix == <<80, 95>>  \* "P_"
Prefixes == {<<>>, Prefix}
ConfigKeys == {Key}
GuardKeys == {p \o k : p \in Prefixes, k \in ConfigKeys}
EnvValues == {<<49>>, <<56>>, <<84, 114, 117, 101>>}  \* "1", "8", "True"
Casts == {"None", "bool", "int"}
Defaults == {undefined, None, StrV(<<48>>), IntV(0)}  \* "0"

\* the env files a resolver is constructed from
EnvFiles ==
    {NoFile,
     File(<< <<75, 61, 110, 111, 10>>,  \* "K=no\n"
             <<80, 95, 75, 61, 39, 48, 39, 10>> >>),  \* "P_K='0'\n"
     File(<< <<35, 32, 75, 61, 49, 10>>,  \* "# K=1\n"
             <<80, 95, 75, 32, 61, 32, 70, 97, 108, 115, 101>> >>)}  \* "P_K = False"

Call(op, key, arg, ret) ==
    [op |-> op, key |-> key, arg |-> arg,
     outcome |-> ret.outcome, result |-> ret.result]

NoCall == Call("none", <<>>, None, Returned(None))

Init ==
    /\ environ \in UNION {[D -> EnvValues] : D \in SUBSET GuardKeys}
    /\ has_been_read = {}
    /\ env_prefix \in Prefixes
    /\ file_values \in {ConfigFileValues(f) : f \in EnvFiles}
    /\ last = NoCall

\* environ[key]
Get(key) ==
    LET r == Environ_getitem(environ, has_been_read, key)
    IN  /\ environ' = r.environ
        /\ has_been_read' = r.read
        /\ last' = Call("get", key, None, r.ret)
        /\ UNCHANGED <<env_prefix, file_values>>

\* environ[key] = value
Set(key, value) ==
    LET r == Environ_setitem(environ, has_been_read, key, value)
    IN  /\ environ' = r.environ
        /\ has_been_read' = r.read
        /\ last' = Call("set", key, StrV(value), r.ret)
        /\ UNCHANGED <<env_prefix, file_values>>

\* del environ[key]
Delete(key) ==
    LET r == Environ_delitem(environ, has_been_read, key)
    IN  /\ environ' = r.environ
        /\ has_been_read' = r.read
        /\ last' = Call("delete", key, None, r.ret)
        /\ UNCHANGED <<env_prefix, file_values>>

\* key in environ
Contains(key) ==
    LET r == Environ_contains(environ, has_been_read, key)
    IN  /\ environ' = r.environ
        /\ has_been_read' = r.read
        /\ last' = Call("contains", key, None, r.ret)
        /\ UNCHANGED <<env_prefix, file_values>>

\* iter(environ)
Iterate ==
    /\ last' = Call("iterate", <<>>, None, Environ_iter(environ))
    /\ UNCHANGED <<environ, has_been_read, env_prefix, file_values>>

\* len(environ)
Size ==
    /\ last' = Call("size", <<>>, None, Environ_len(environ))
    /\ UNCHANGED <<environ, has_been_read, env_prefix, file_values>>

\* config.get(key, cast, default), and config(key, cast, default)
ConfigGet(key, cast, default) ==
    LET r == Config_get(environ, has_been_read, env_prefix, file_values,
                        key, cast, default)
    IN  /\ environ' = r.environ
        /\ has_been_read' = r.read
        /\ last' = Call("config_get", key, [cast |-> cast, default |-> default], r.ret)
        /\ UNCHANGED <<env_prefix, file_values>>

Next ==
    \/ \E k \in GuardKeys : Get(k)
    \/ \E k \in GuardKeys, v \in EnvValues : Set(k, v)
    \/ \E k \in GuardKeys : Delete(k)
    \/ \E k \in GuardKeys : Contains(k)
    \/ Iterate
    \/ Size
    \/ \E k \in ConfigKeys, c \in Casts, d \in Defaults : ConfigGet(k, c, d)

Spec == Init /\ [][Next]_vars

----------------------------------------------------------------------------
(* Constructing a resolver from an env file *)

LineAlphabet == {65, 61, 35, 32, 34, 39, 160}  \* "A", "=", "#", " ", "\"", "'", "\xa0"

\* lines of the env files tried besides the enumerated one-line files
SampleLines ==
    {<<65, 61, 49, 10>>,  \* "A=1\n"
     <<35, 32, 99, 111, 109, 109, 101, 110, 116, 10>>,  \* "# comment\n"
     <<66, 32, 61, 32, 34, 104, 101, 108, 108, 111, 32, 119, 111, 114, 108, 100, 34, 10>>,  \* "B = \"hello world\"\n"
     <<10>>,  \* "\n"
     <<67, 61, 102, 111, 111, 61, 98, 97, 114>>,  \* "C=foo=bar"
     <<65, 61, 50, 10>>,  \* "A=2\n"
     <<9, 65, 32, 61, 32, 51, 32, 10>>,  \* "\tA = 3 \n"
     <<32, 35, 65, 61, 52, 10>>,  \* " #A=4\n"
     <<66, 61, 34, 34, 97, 34, 34, 10>>,  \* "B=\"\"a\"\"\n"
     <<67, 61, 34, 39, 97, 39, 34, 10>>,  \* "C=\"'a'\"\n"
     <<65, 10>>,  \* "A\n"
     <<11, 35, 65, 61, 53, 10>>,  \* "\x0b#A=5\n"
     <<65, 61, 54, 160, 10>>,  \* "A=6\xa0\n"
     <<65, 28, 61, 55, 10>>,  \* "A\x1c=7\n"
     <<66, 61, 31, 39, 39, 120, 39, 39, 31, 10>>,  \* "B=\x1f''x''\x1f\n"
     <<8195, 67, 61, 56, 10>>}  \* "\u2003C=8\n"

\* a file of five lines: an assignment, a comment, a quoted value, a blank
\* line, a value holding '='
ExampleFile ==
    << <<65, 61, 49, 10>>,  \* "A=1\n"
       <<35, 32, 99, 111, 109, 109, 101, 110, 116, 10>>,  \* "# comment\n"
       <<66, 32, 61, 32, 34, 104, 101, 108, 108, 111, 32, 119, 111, 114, 108, 100, 34, 10>>,  \* "B = \"hello world\"\n"
       <<10>>,  \* "\n"
       <<67, 61, 102, 111, 111, 61, 98, 97, 114>> >>  \* "C=foo=bar"

Files ==
    {NoFile, File(ExampleFile)}
        \cup {File(<<l>>) : l \in SeqsUpTo(LineAlphabet, MaxLineLen)}
        \cup {File(ls) : ls \in SeqsUpTo(SampleLines, MaxLines)}

InitFile ==
    /\ environ = EmptyMap
    /\ has_been_read = {}
    /\ env_prefix = <<>>
    /\ file_values = EmptyMap
    /\ last = NoCall

\* Config(env_file, environ)
Construct(env_file) ==
    /\ file_values' = ConfigFileValues(env_file)
    /\ last' = Call("__init__", <<>>, env_file, Returned(None))
    /\ UNCHANGED <<environ, has_been_read, env_prefix>>

\* the constructor runs once
NextFile == last = NoCall /\ \E f \in Files : Construct(f)

SpecFile == InitFile /\ [][NextFile]_vars

----------------------------------------------------------------------------
(* Casting a value *)

CastAlphabet == {116, 84, 114, 117, 101, 49, 48}  \* "t", "T", "r", "u", "e", "1", "0"

SampleStrings ==
    {<<84, 82, 85, 69>>,  \* "TRUE"
     <<84, 114, 117, 101>>,  \* "True"
     <<102, 97, 108, 115, 101>>,  \* "false"
     <<70, 65, 76, 83, 69>>,  \* "FALSE"
     <<70, 97, 108, 115, 101>>,  \* "False"
     <<102, 65, 108, 83, 101>>,  \* "fAlSe"
     <<121, 101, 115>>,  \* "yes"
     <<110, 111>>,  \* "no"
     <<111, 110>>,  \* "on"
     <<111, 102, 102>>,  \* "off"
     <<32, 116, 114, 117, 101, 32>>,  \* " true "
     <<116, 114, 117, 101, 10>>,  \* "true\n"
     <<102, 97, 108, 115, 101, 121>>,  \* "falsey"
     <<116, 114, 117, 101, 8195>>,  \* "true\u2003"
     <<84, 82, 85, 931>>,  \* "TRU\u03a3"
     <<201, 84, 201>>,  \* "\xc9T\xc9"
     <<84, 82, 85, 65317>>,  \* "TRU\uff25"
     <<70, 65, 76, 383, 69>>,  \* "FAL\u017fE"
     <<304>>,  \* "\u0130"
     <<1779>>,  \* "\u06f3"
     <<1779, 49>>,  \* "\u06f31"
     <<11, 49>>,  \* "\x0b1"
     <<49, 160>>,  \* "1\xa0"
     <<28, 49>>,  \* "\x1c1"
     <<43, 56>>,  \* "+8"
     <<45, 48>>,  \* "-0"
     <<49, 95, 48>>,  \* "1_0"
     <<49, 95, 95, 48>>,  \* "1__0"
     <<45, 50, 49, 52, 55, 52, 56, 51, 54, 52, 56>>,  \* "-2147483648"
     [i \in 1..MaxStrDigits |-> 49],  \* "1" * 4300
     [i \in 1..(MaxStrDigits + 1) |-> 48]}  \* "0" * 4301

CastStrings == SeqsUpTo(CastAlphabet, MaxStrLen) \cup SampleStrings

CastValues ==
    {StrV(s) : s \in CastStrings} \cup {None, IntV(0), IntV(1), BoolV(TRUE)}

InitCast ==
    /\ environ = EmptyMap
    /\ has_been_read = {}
    /\ env_prefix = <<>>
    /\ file_values = EmptyMap
    /\ last = NoCall

\* config._perform_cast(key, value, cast)
Cast(value, cast) ==
    /\ last' = Call("_perform_cast", Key, [value |-> value, cast |-> cast],
                    PerformCast(Key, value, cast))
    /\ UNCHANGED <<environ, has_been_read, env_prefix, file_values>>

\* _perform_cast reads and writes no state: one call per behaviour covers it
NextCast == last = NoCall /\ \E v \in CastValues, c \in Casts : Cast(v, c)

SpecCast == InitCast /\ [][NextCast]_vars

----------------------------------------------------------------------------
(* Properties of the guard and of the resolver over it (Spec) *)

EffectiveKey(k) == env_prefix \o k

\* C1: a key that get has read stays read, and from then on every set and
\* every delete of it ends in EnvironError and leaves the underlying mapping
\* as it was.
C1_ReadKeysAreFrozen ==
    [][/\ has_been_read \subseteq has_been_read'
       /\ (last'.op = "get" => last'.key \in has_been_read')
       /\ (last'.op \in {"set", "delete"} /\ last'.key \in has_been_read
              => last'.outcome = "EnvironError" /\ environ' = environ)]_vars

C1_Witness ==
    /\ last.op = "delete"
    /\ last.outcome = "EnvironError"
    /\ last.key \in has_been_read
    /\ last.key \in DOMAIN environ

\* C2 as claimed: key in environ leaves the set of read keys as it was.
C2_ContainsLeavesReadKeys ==
    [][last'.op = "contains" => has_been_read' = has_been_read]_vars

\* C2 as amended: key in environ marks key as read, present or absent (it
\* runs __getitem__), answers whether key is present and leaves the
\* underlying mapping alone; a set or delete of key right after it ends in
\* EnvironError.
C2_ContainsMarksRead ==
    [][/\ (last'.op = "contains"
              => /\ has_been_read' = has_been_read \cup {last'.key}
                 /\ environ' = environ
                 /\ last'.outcome = "ok"
                 /\ last'.result = BoolV(last'.key \in DOMAIN environ))
       /\ (last.op = "contains" /\ last'.op \in {"set", "delete"}
                                /\ last'.key = last.key
              => last'.outcome = "EnvironError" /\ environ' = environ)]_vars

C2_Witness ==
    /\ last.op = "contains"
    /\ last.result = BoolV(FALSE)
    /\ has_been_read = {last.key}
    /\ last.key \notin DOMAIN environ

\* C3: Config.get answers for prefix + key by precedence: the cast of the
\* environment value when the environment holds it, else the cast of the file
\* value when the file values hold it, else the cast of a supplied default.
\* Only prefix + key is looked up: no other key is marked read.
C3_Precedence ==
    [][last'.op = "config_get" =>
          LET k == EffectiveKey(last'.key)
              cast == last'.arg.cast
              default == last'.arg.default
              ret == [outcome |-> last'.outcome, result |-> last'.result]
          IN  /\ k \in DOMAIN environ
                    => ret = PerformCast(k, StrV(environ[k]), cast)
              /\ k \notin DOMAIN environ /\ k \in DOMAIN file_values
                    => ret = PerformCast(k, StrV(file_values[k]), cast)
              /\ k \notin DOMAIN environ /\ k \notin DOMAIN file_values
                    /\ default # undefined
                    => ret = PerformCast(k, default, cast)
              /\ has_been_read' = has_been_read \cup {k}
              /\ environ' = environ /\ file_values' = file_values]_vars

C3_Witness ==
    /\ last.op = "config_get"
    /\ env_prefix = Prefix
    /\ last.arg.cast = "int"
    /\ last.outcome = "ok"
    /\ last.result = IntV(8)
    /\ EffectiveKey(last.key) \in DOMAIN environ
    /\ EffectiveKey(last.key) \in DOMAIN file_values
    /\ file_values[EffectiveKey(last.key)] = <<48>>  \* "0"
    /\ last.key \in DOMAIN environ
    /\ environ[last.key] = <<49>>  \* "1"

\* C4: with prefix + key in neither the environment nor the file values,
\* default=None gives None whatever the cast, and no default gives KeyError.
C4_NoneIsNotUndefined ==
    last.op = "config_get"
        /\ EffectiveKey(last.key) \notin DOMAIN environ
        /\ EffectiveKey(last.key) \notin DOMAIN file_values
    => /\ last.arg.default = None
            => last.outcome = "ok" /\ last.result = None
       /\ last.arg.default = undefined
            => last.outcome = "KeyError"

C4_Witness ==
    /\ last.op = "config_get"
    /\ EffectiveKey(last.key) \notin DOMAIN environ
    /\ EffectiveKey(last.key) \notin DOMAIN file_values
    /\ last.arg.default = None
    /\ last.arg.cast = "int"
    /\ last.outcome = "ok"
    /\ last.result = None

\* C6: a set of a key not yet read succeeds and stores the value, and a get of
\* that key right after it returns the value.
C6_SetThenGet ==
    [][/\ (last'.op = "set" /\ last'.key \notin has_been_read
              => /\ last'.outcome = "ok"
                 /\ last'.key \in DOMAIN environ'
                 /\ environ'[last'.key] = last'.arg.s)
       /\ (last.op = "set" /\ last.outcome = "ok"
                           /\ last'.op = "get" /\ last'.key = last.key
              => last'.outcome = "ok" /\ last'.result = last.arg)]_vars

C6_Witness ==
    /\ last.op = "set"
    /\ last.outcome = "ok"
    /\ last.key \notin has_been_read
    /\ environ[last.key] = last.arg.s
    /\ has_been_read # {}

\* C9: a get of an absent key ends in KeyError and still marks the key read:
\* a set or delete of it right after ends in EnvironError and the key stays
\* absent.
C9_FailedGetMarksRead ==
    [][/\ (last'.op = "get" /\ last'.key \notin DOMAIN environ
              => /\ last'.outcome = "KeyError"
                 /\ last'.key \in has_been_read'
                 /\ environ' = environ)
       /\ (last.op = "get" /\ last.outcome = "KeyError"
                           /\ last'.op \in {"set", "delete"}
                           /\ last'.key = last.key
              => /\ last'.outcome = "EnvironError"
                 /\ last'.key \notin DOMAIN environ')]_vars

C9_Witness ==
    /\ last.op = "get"
    /\ last.outcome = "KeyError"
    /\ last.key \in has_been_read
    /\ last.key \notin DOMAIN environ

\* C10: every Config.get marks prefix + key as read in the guard, whatever
\* supplied the value and also when the call fails; read keys stay read, so a
\* set or delete of prefix + key after it ends in EnvironError.
C10_ConfigGetMarksRead ==
    [][/\ (last'.op = "config_get"
              => EffectiveKey(last'.key) \in has_been_read')
       /\ has_been_read \subseteq has_been_read'
       /\ (last.op = "config_get" /\ last'.op \in {"set", "delete"}
                                  /\ last'.key = EffectiveKey(last.key)
              => last'.outcome = "EnvironError" /\ environ' = environ)]_vars

C10_Witness ==
    /\ last.op = "config_get"
    /\ last.outcome = "KeyError"
    /\ has_been_read = {EffectiveKey(last.key)}

----------------------------------------------------------------------------
(* Properties of the file values (SpecFile) and of the cast (SpecCast) *)

\* s from its first to its last character outside chars
Trimmed(s, chars) ==
    LET keep == {i \in 1..Len(s) : s[i] \notin chars}
    IN  IF keep = {} THEN <<>>
        ELSE SubSeq(s, CHOOSE i \in keep : \A j \in keep : i <= j,
                       CHOOSE i \in keep : \A j \in keep : i >= j)

\* the line assigns: trimmed, it holds '=' and does not start with '#'
Assigns(line) ==
    LET t == Trimmed(line, WhiteSpace)
    IN  /\ \E i \in 1..Len(t) : t[i] = 61  \* "="
        /\ ~(t # <<>> /\ t[1] = 35)  \* "#"

FirstEq(t) ==
    CHOOSE p \in 1..Len(t) : t[p] = 61 /\ \A q \in 1..(p - 1) : t[q] # 61  \* "="

\* the key an assigning line names, and the text of its value
KeyOf(line) ==
    LET t == Trimmed(line, WhiteSpace)
    IN  Trimmed(SubSeq(t, 1, FirstEq(t) - 1), WhiteSpace)

ValueTextOf(line) ==
    LET t == Trimmed(line, WhiteSpace)
    IN  Trimmed(SubSeq(t, FirstEq(t) + 1, Len(t)), WhiteSpace)

\* the last line of the file that assigns key k
LastLineOf(lines, k) ==
    lines[CHOOSE i \in 1..Len(lines) :
            /\ Assigns(lines[i]) /\ KeyOf(lines[i]) = k
            /\ \A j \in (i + 1)..Len(lines) :
                  ~(Assigns(lines[j]) /\ KeyOf(lines[j]) = k)]

\* C5: the bool cast of a str is True for "true" in any case and for "1",
\* False for "false" in any case and for "0", and a ValueError for every
\* other string.
\* s is word, a word of the letters a..z, with each letter in either case
Spells(s, word) ==
    /\ Len(s) = Len(word)
    /\ \A i \in 1..Len(s) : s[i] \in {word[i], word[i] - 32}

C5_BoolCast ==
    last.op = "_perform_cast" /\ last.arg.cast = "bool" /\ last.arg.value.t = "str"
    => LET s == last.arg.value.s
       IN  IF Spells(s, <<116, 114, 117, 101>>) \/ s = <<49>>  \* "true", "1"
           THEN last.outcome = "ok" /\ last.result = BoolV(TRUE)
           ELSE IF Spells(s, <<102, 97, 108, 115, 101>>) \/ s = <<48>>  \* "false", "0"
           THEN last.outcome = "ok" /\ last.result = BoolV(FALSE)
           ELSE last.outcome = "ValueError"

C5_Witness ==
    /\ last.op = "_perform_cast"
    /\ last.arg.cast = "bool"
    /\ last.arg.value = StrV(<<84, 114, 117, 101>>)  \* "True"
    /\ last.result = BoolV(TRUE)

\* whitespace other than the blank, the tab and the line ends: the vertical
\* tab, the separators \x1c..\x1f, \x85, \xa0 and the Unicode space U+2003
OtherBlanks == {11, 28, 29, 30, 31, 133, 160, 8195}

\* C7: the file values hold exactly the keys of the assigning lines (a blank
\* line, a line without '=' and a line starting with '#' assign nothing); a
\* line is split at its first '=', key and value are trimmed of whitespace,
\* and a key has the value of the last line that assigns it (the trimmed
\* value less the quote characters around it).  Whitespace is more than the
\* blank, the tab and the line ends: no key keeps a vertical tab, a separator
\* \x1c..\x1f, \x85, \xa0 or a Unicode space at either end, and a line whose
\* first character after them is '#' gives no key.
C7_FileValues ==
    last.op = "__init__" /\ last.arg.isfile
    => LET lines == last.arg.lines
       IN  /\ DOMAIN file_values =
                  {KeyOf(lines[i]) : i \in {j \in 1..Len(lines) : Assigns(lines[j])}}
           /\ \A k \in DOMAIN file_values :
                  file_values[k] =
                      Trimmed(ValueTextOf(LastLineOf(lines, k)), QuoteChars)
           /\ \A k \in DOMAIN file_values :
                  k # <<>> => /\ k[1] \notin OtherBlanks \cup {35}  \* "#"
                              /\ k[Len(k)] \notin OtherBlanks

C7_Witness ==
    /\ last.op = "__init__"
    /\ last.arg = File(ExampleFile)
    /\ DOMAIN file_values = {<<65>>, <<66>>, <<67>>}  \* "A", "B", "C"
    /\ file_values[<<65>>] = <<49>>  \* "A", "1"
    /\ file_values[<<66>>] = <<104, 101, 108, 108, 111, 32, 119, 111, 114, 108, 100>>  \* "B", "hello world"
    /\ file_values[<<67>>] = <<102, 111, 111, 61, 98, 97, 114>>  \* "C", "foo=bar"

\* C8 as claimed: of a value wrapped in a pair of matching quotes, what is
\* stored is what the pair encloses, quote characters included.
C8_OneLayerOfQuotes ==
    last.op = "__init__" /\ last.arg.isfile
    => \A k \in DOMAIN file_values :
          LET t == ValueTextOf(LastLineOf(last.arg.lines, k))
          IN  Len(t) >= 2 /\ t[1] \in QuoteChars /\ t[Len(t)] = t[1]
                  => file_values[k] = SubSeq(t, 2, Len(t) - 1)

\* C8 as amended: what is stored is the value less every quote character at
\* its start and at its end, however many, of either kind, matching or not;
\* the quote characters between its first and last other character are kept.
C8_AllOuterQuotes ==
    last.op = "__init__" /\ last.arg.isfile
    => \A k \in DOMAIN file_values :
          LET t == ValueTextOf(LastLineOf(last.arg.lines, k))
              v == file_values[k]
          IN  /\ v # <<>> => v[1] \notin QuoteChars /\ v[Len(v)] \notin QuoteChars
              /\ \E a, b \in 0..Len(t) :
                    /\ a + Len(v) + b = Len(t)
                    /\ \A i \in 1..Len(t) :
                          IF i <= a \/ i > a + Len(v)
                          THEN t[i] \in QuoteChars
                          ELSE t[i] = v[i - a]

C8_Witness ==
    /\ last.op = "__init__"
    /\ last.arg = File(<< <<66, 61, 31, 39, 39, 120, 39, 39, 31, 10>>,  \* "B=\x1f''x''\x1f\n"
                          <<67, 61, 34, 39, 97, 39, 34, 10>> >>)  \* "C=\"'a'\"\n"
    /\ file_values[<<66>>] = <<120>>  \* "B", "x"
    /\ file_values[<<67>>] = <<97>>  \* "C", "a"

=============================================================================
